---------------------------- MODULE Spec2Model ----------------------------
(***************************************************************************)
(* Model of the cost dashboard: the ingestion pipeline of src/app1.py      *)
(* (load_and_process_data), the script that follows it (filters, key       *)
(* metrics, the per-account frame), the per-account frames and the         *)
(* convert_to_eur variant of src/app.py, and the rerun of the script when  *)
(* another file is uploaded.                                               *)
(*                                                                         *)
(* Specifications.                                                         *)
(*  - Spec: one upload of any file of Sources, the pipeline statement by   *)
(*    statement, then the script.                                          *)
(*  - AggSpec: the same over sheets of billed orders of a few accounts,    *)
(*    with the per-account frames of app.py.                               *)
(*  - SessionSpec: AggSpec over a few files, with further uploads.         *)
(*                                                                         *)
(* Representation.                                                         *)
(*  - Text is a tuple of one-character strings, so that strip, upper,      *)
(*    replace and float() are computed character by character.             *)
(*  - A number is an exact decimal m * 10^e, kept normalised (no trailing  *)
(*    zero in m, zero is 0 * 10^0).  Python computes with binary floats;   *)
(*    the model computes the same products exactly, so a product such as   *)
(*    100 * 1.17 is 117 here.                                              *)
(*  - A cell of the table is NaN (missing), text, a number, a timestamp,   *)
(*    or another object (for instance a datetime.time read from the        *)
(*    sheet) that float() rejects.                                         *)
(*  - The table handed to the pipeline is the one pd.read_excel returns.   *)
(***************************************************************************)
EXTENDS Integers, Sequences, FiniteSets, TLC

(***************************************************************************)
(* Bounds of the model.                                                    *)
(***************************************************************************)
\* longest text enumerated for a monetary cell
MaxLen == 3
\* most rows of a multi-row source
MaxRows == 2

(***************************************************************************)
(* Cells.                                                                  *)
(***************************************************************************)
NaN == [k |-> "nan"]
Obj == [k |-> "obj"]
Str(s) == [k |-> "str", s |-> s]
Timestamp(y, mo, d) == [k |-> "date", y |-> y, mo |-> mo, d |-> d]

RECURSIVE Norm(_, _)
\* the normalised decimal m * 10^e
Norm(m, e) ==
    IF m = 0 THEN [k |-> "num", m |-> 0, e |-> 0]
    ELSE IF m % 10 = 0 THEN Norm(m \div 10, e + 1)
    ELSE [k |-> "num", m |-> m, e |-> e]

Num(m, e) == Norm(m, e)
Int0 == Num(0, 0)

\* pd.isna / pd.notna on a scalar
isna(c) == c.k = "nan"
notna(c) == ~isna(c)

\* float multiplication, computed exactly
Mul(a, b) == Norm(a.m * b.m, a.e + b.e)

IsZero(c) == c.k = "num" /\ c.m = 0

\* float addition, negation and subtraction, computed exactly
Add(a, b) ==
    LET e == IF a.e < b.e THEN a.e ELSE b.e
    IN  Norm(a.m * (10 ^ (a.e - e)) + b.m * (10 ^ (b.e - e)), e)
Neg(a) == Norm(0 - a.m, a.e)
Sub(a, b) == Add(a, Neg(b))

\* a < b, a <= b and abs(a) on floats
Lt(a, b) == Sub(a, b).m < 0
Le(a, b) == Sub(a, b).m <= 0
Abs(a) == IF a.m < 0 THEN Neg(a) ELSE a

\* the results of a float division by zero in a numpy array: +inf and -inf;
\* 0 / 0 gives nan, the missing value NaN
Inf == [k |-> "inf", m |-> 1]
NegInf == [k |-> "inf", m |-> 0 - 1]

\* the integer nearest to n / d for d > 0, a tie going to the even one
RoundDiv(n, d) ==
    LET q == n \div d
        r == n % d
    IN  IF 2 * r < d THEN q
        ELSE IF 2 * r > d THEN q + 1
        ELSE IF q % 2 = 0 THEN q ELSE q + 1

\* (a / b * 100).round(2) on a column of floats: two decimals of the exact
\* quotient; a zero divisor gives an infinity, or nan for 0 / 0
PercentOf(a, b) ==
    IF b.m = 0
    THEN (IF a.m = 0 THEN NaN ELSE IF a.m > 0 THEN Inf ELSE NegInf)
    ELSE LET e == IF a.e < b.e THEN a.e ELSE b.e
             n == a.m * (10 ^ (a.e - e)) * 10000
             d == b.m * (10 ^ (b.e - e))
         IN  IF d > 0 THEN Norm(RoundDiv(n, d), 0 - 2)
             ELSE Norm(RoundDiv(0 - n, 0 - d), 0 - 2)

(***************************************************************************)
(* Text.                                                                   *)
(***************************************************************************)
Digits == {"0", "1", "2", "3", "4", "5", "6", "7", "8", "9"}
DigitVal(ch) ==
    CASE ch = "0" -> 0 [] ch = "1" -> 1 [] ch = "2" -> 2 [] ch = "3" -> 3
      [] ch = "4" -> 4 [] ch = "5" -> 5 [] ch = "6" -> 6 [] ch = "7" -> 7
      [] ch = "8" -> 8 [] ch = "9" -> 9
DigitChar(n) == <<"0", "1", "2", "3", "4", "5", "6", "7", "8", "9">>[n + 1]

\* the characters str.strip() and float() treat as white space
Whitespace == {" ", "\t"}

\* str.replace(ch, '')
RECURSIVE replace(_, _)
replace(s, ch) ==
    IF s = <<>> THEN <<>>
    ELSE IF Head(s) = ch THEN replace(Tail(s), ch)
    ELSE <<Head(s)>> \o replace(Tail(s), ch)

RECURSIVE lstrip(_)
lstrip(s) ==
    IF s # <<>> /\ Head(s) \in Whitespace THEN lstrip(Tail(s)) ELSE s

RECURSIVE rstrip(_)
rstrip(s) ==
    IF s # <<>> /\ s[Len(s)] \in Whitespace
    THEN rstrip(SubSeq(s, 1, Len(s) - 1)) ELSE s

\* str.strip()
strip(s) == rstrip(lstrip(s))

Lower == <<"a", "b", "c", "d", "e", "f", "g", "h", "i", "j", "k", "l", "m",
           "n", "o", "p", "q", "r", "s", "t", "u", "v", "w", "x", "y", "z">>
Upper == <<"A", "B", "C", "D", "E", "F", "G", "H", "I", "J", "K", "L", "M",
           "N", "O", "P", "Q", "R", "S", "T", "U", "V", "W", "X", "Y", "Z">>
UpperChar(ch) ==
    IF \E i \in 1..26 : Lower[i] = ch
    THEN Upper[CHOOSE i \in 1..26 : Lower[i] = ch]
    ELSE ch

\* str.upper()
upper(s) == [i \in 1..Len(s) |-> UpperChar(s[i])]

RECURSIVE DigitsValue(_)
\* the integer a run of digits spells
DigitsValue(s) ==
    IF s = <<>> THEN 0
    ELSE 10 * DigitsValue(SubSeq(s, 1, Len(s) - 1)) + DigitVal(s[Len(s)])

\* the positions of ch in s
Positions(s, ch) == {i \in 1..Len(s) : s[i] = ch}

(***************************************************************************)
(* float(text): white space around the literal is ignored, then an         *)
(* optional sign, digits with at most one decimal point and at least one   *)
(* digit.  FloatText gives [ok |-> FALSE] where float() raises ValueError. *)
(* (Exponents, "inf", "nan" and "_" need characters the model's texts      *)
(* never hold.)                                                            *)
(***************************************************************************)
FloatText(s) ==
    LET t == strip(s)
        signed == t # <<>> /\ Head(t) \in {"-", "+"}
        u == IF signed THEN Tail(t) ELSE t
        dots == Positions(u, ".")
        body == replace(u, ".")
        wellformed ==
            /\ body # <<>>
            /\ \A i \in 1..Len(body) : body[i] \in Digits
            /\ Cardinality(dots) <= 1
        frac == IF dots = {} THEN 0 ELSE Len(u) - (CHOOSE i \in dots : TRUE)
        mag == DigitsValue(body)
    IN  IF wellformed
        THEN [ok |-> TRUE,
              v |-> Norm(IF signed /\ Head(t) = "-" THEN 0 - mag ELSE mag,
                         0 - frac)]
        ELSE [ok |-> FALSE]


(***************************************************************************)
(* Program constants.                                                      *)
(***************************************************************************)
EUR == <<"E", "U", "R">>
GBP == <<"G", "B", "P">>
USD == <<"U", "S", "D">>
KRW == <<"K", "R", "W">>
AUD == <<"A", "U", "D">>
SGD == <<"S", "G", "D">>

\* EXCHANGE_RATES: 1.0, 1.17, 0.92, 0.00069, 0.60, 0.68
EXCHANGE_RATES ==
    (EUR :> Num(1, 0)) @@ (GBP :> Num(117, 0 - 2)) @@ (USD :> Num(92, 0 - 2))
    @@ (KRW :> Num(69, 0 - 5)) @@ (AUD :> Num(6, 0 - 1)) @@ (SGD :> Num(68, 0 - 2))

BILLED == <<"4", "4", "0", "-", "B", "I", "L", "L", "E", "D">>
PENDING == <<"3", "0", "0", "-", "P", "E", "N", "D", "I", "N", "G">>
NAN == <<"N", "A", "N">>
NaT == <<"N", "a", "T">>
Unknown == <<"U", "n", "k", "n", "o", "w", "n">>

cost_columns ==
    <<"PU COST", "SHIP COST", "MAN COST", "DEL COST", "Total cost", "NET", "TOTAL$">>
CostSet == {cost_columns[n] : n \in 1..Len(cost_columns)}
EurOf(col) == col \o "_EUR"

(***************************************************************************)
(* Results of a call that may raise.                                       *)
(***************************************************************************)
Ret(v) == [raised |-> FALSE, v |-> v]
Raise == [raised |-> TRUE]

\* float(value) for any cell: text is parsed, a number is itself, anything
\* else is a TypeError
float(value) ==
    CASE value.k = "num" -> Ret(value)
      [] value.k = "str" ->
            LET f == FloatText(value.s) IN IF f.ok THEN Ret(f.v) ELSE Raise
      [] OTHER -> Raise

\* str(value): text is itself; the model gives every other object one
\* representation that is no currency code
PyStr(value) == IF value.k = "str" THEN value.s ELSE <<"<", "o", "b", "j", ">">>

\* clean_numeric with the commas left in the text
clean_numeric_commas(value) ==
    IF isna(value) \/ value = Str(<<>>) \/ value = Str(<<" ">>)
    THEN Ret(Int0)
    ELSE IF value.k = "str"
    THEN LET v == replace(value.s, " ")
             f == FloatText(v)
         IN  IF v = <<>> THEN Ret(Int0)
             ELSE IF f.ok THEN Ret(f.v)
             ELSE Ret(Int0)
    ELSE float(value)

\* clean_numeric giving -1 where the text does not parse
clean_numeric_minus(value) ==
    IF isna(value) \/ value = Str(<<>>) \/ value = Str(<<" ">>)
    THEN Ret(Int0)
    ELSE IF value.k = "str"
    THEN LET v == replace(replace(value.s, ","), " ")
             f == FloatText(v)
         IN  IF v = <<>> THEN Ret(Int0)
             ELSE IF f.ok THEN Ret(f.v)
             ELSE Ret(Num(0 - 1, 0))
    ELSE float(value)

(***************************************************************************)
(* clean_numeric (app1.py)                                                 *)
(***************************************************************************)
clean_numeric(value) ==
    IF isna(value) \/ value = Str(<<>>) \/ value = Str(<<" ">>)
    THEN Ret(Int0)
    ELSE IF value.k = "str"
    THEN LET v == replace(replace(value.s, ","), " ")
             f == FloatText(v)
         IN  IF v = <<>> THEN Ret(Int0)
             ELSE IF f.ok THEN Ret(f.v)
             ELSE Ret(Int0)
    ELSE float(value)

\* convert_to_eur looking the currency cell up as it is written
convert_to_eur_raw(row, column) ==
    LET value == IF column \in DOMAIN row /\ notna(row[column])
                 THEN row[column] ELSE Int0
    IN  IF IsZero(value) THEN [v |-> Int0, warn |-> <<>>]
        ELSE IF "CURR" \notin DOMAIN row THEN [v |-> Int0, warn |-> <<>>]
        ELSE LET currency == IF notna(row["CURR"]) THEN PyStr(row["CURR"]) ELSE EUR
                 f == float(value)
             IN  IF currency \notin DOMAIN EXCHANGE_RATES
                 THEN [v |-> IF f.raised THEN Int0 ELSE f.v,
                       warn |-> IF currency # <<>> /\ currency # NAN
                                THEN <<currency>> ELSE <<>>]
                 ELSE [v |-> IF f.raised THEN Int0
                             ELSE Mul(f.v, EXCHANGE_RATES[currency]),
                       warn |-> <<>>]

\* convert_to_eur without the default for a missing currency cell
convert_to_eur_nodefault(row, column) ==
    LET value == IF column \in DOMAIN row /\ notna(row[column])
                 THEN row[column] ELSE Int0
    IN  IF IsZero(value) THEN [v |-> Int0, warn |-> <<>>]
        ELSE IF "CURR" \notin DOMAIN row THEN [v |-> Int0, warn |-> <<>>]
        ELSE LET currency == IF notna(row["CURR"])
                             THEN upper(strip(PyStr(row["CURR"]))) ELSE NAN
                 f == float(value)
             IN  IF currency \notin DOMAIN EXCHANGE_RATES
                 THEN [v |-> IF f.raised THEN Int0 ELSE f.v,
                       warn |-> IF currency # <<>> THEN <<currency>> ELSE <<>>]
                 ELSE [v |-> IF f.raised THEN Int0
                             ELSE Mul(f.v, EXCHANGE_RATES[currency]),
                       warn |-> <<>>]

\* convert_to_eur without the early return for a zero value
convert_to_eur_nozero(row, column) ==
    LET value == IF column \in DOMAIN row /\ notna(row[column])
                 THEN row[column] ELSE Int0
    IN  IF "CURR" \notin DOMAIN row THEN [v |-> Int0, warn |-> <<>>]
        ELSE LET currency == IF notna(row["CURR"])
                             THEN upper(strip(PyStr(row["CURR"]))) ELSE EUR
                 f == float(value)
             IN  IF currency \notin DOMAIN EXCHANGE_RATES
                 THEN [v |-> IF f.raised THEN Int0 ELSE f.v,
                       warn |-> IF currency # <<>> /\ currency # NAN
                                THEN <<currency>> ELSE <<>>]
                 ELSE [v |-> IF f.raised THEN Int0
                             ELSE Mul(f.v, EXCHANGE_RATES[currency]),
                       warn |-> <<>>]

(***************************************************************************)
(* convert_to_eur (app1.py).  The result is the value returned and the     *)
(* st.sidebar.warning calls made, as the currency texts they name.  Any    *)
(* exception inside the function is caught and gives 0; a warning issued   *)
(* before the exception stays issued.                                      *)
(***************************************************************************)
convert_to_eur(row, column) ==
    LET value == IF column \in DOMAIN row /\ notna(row[column])
                 THEN row[column] ELSE Int0
    IN  IF IsZero(value) THEN [v |-> Int0, warn |-> <<>>]
        ELSE IF "CURR" \notin DOMAIN row THEN [v |-> Int0, warn |-> <<>>]
        ELSE LET currency == IF notna(row["CURR"])
                             THEN upper(strip(PyStr(row["CURR"]))) ELSE EUR
                 f == float(value)
             IN  IF currency \notin DOMAIN EXCHANGE_RATES
                 THEN [v |-> IF f.raised THEN Int0 ELSE f.v,
                       warn |-> IF currency # <<>> /\ currency # NAN
                                THEN <<currency>> ELSE <<>>]
                 ELSE [v |-> IF f.raised THEN Int0
                             ELSE Mul(f.v, EXCHANGE_RATES[currency]),
                       warn |-> <<>>]

(***************************************************************************)
(* convert_to_eur (app.py): no cleaning precedes it, the currency cell is  *)
(* used as it is, and every unknown currency is warned about.              *)
(***************************************************************************)
convert_to_eur_app(row, column) ==
    IF column \notin DOMAIN row THEN [v |-> Int0, warn |-> <<>>]
    ELSE
    LET value == IF notna(row[column]) THEN row[column] ELSE Int0
    IN  IF IsZero(value) \/ isna(value) THEN [v |-> Int0, warn |-> <<>>]
        ELSE IF "CURR" \notin DOMAIN row THEN [v |-> Int0, warn |-> <<>>]
        ELSE LET currency == IF notna(row["CURR"]) THEN PyStr(row["CURR"]) ELSE EUR
                 f == float(value)
             IN  IF currency \notin DOMAIN EXCHANGE_RATES
                 THEN [v |-> IF f.raised THEN Int0 ELSE f.v,
                       warn |-> <<currency>>]
                 ELSE [v |-> IF f.raised THEN Int0
                             ELSE Mul(f.v, EXCHANGE_RATES[currency]),
                       warn |-> <<>>]

(***************************************************************************)
(* pd.to_datetime(errors='coerce') on one cell, and the month text         *)
(* .dt.to_period('M').astype(str) gives.  Text is read as YYYY-MM-DD; the  *)
(* sources of the model hold no other date layout.                         *)
(***************************************************************************)
IsLeap(y) == (y % 4 = 0 /\ y % 100 # 0) \/ y % 400 = 0
DaysIn(y, mo) ==
    IF mo = 2 THEN (IF IsLeap(y) THEN 29 ELSE 28)
    ELSE IF mo \in {4, 6, 9, 11} THEN 30 ELSE 31

ParseDate(s) ==
    LET shaped ==
            /\ Len(s) = 10
            /\ s[5] = "-" /\ s[8] = "-"
            /\ \A n \in {1, 2, 3, 4, 6, 7, 9, 10} : s[n] \in Digits
        y == DigitsValue(SubSeq(s, 1, 4))
        mo == DigitsValue(SubSeq(s, 6, 7))
        d == DigitsValue(SubSeq(s, 9, 10))
    IN  IF shaped /\ y >= 1 /\ mo \in 1..12 /\ d >= 1 /\ d <= DaysIn(y, mo)
        THEN Timestamp(y, mo, d) ELSE NaN

to_datetime(value) ==
    CASE value.k = "date" -> value
      [] value.k = "str" -> ParseDate(strip(value.s))
      [] OTHER -> NaN

Pad(n, width) ==
    [p \in 1..width |->
        DigitChar((n \div (10 ^ (width - p))) % 10)]

\* str of a monthly period; a missing timestamp prints as NaT
MonthStr(value) ==
    IF value.k = "date"
    THEN Str(Pad(value.y, 4) \o <<"-">> \o Pad(value.mo, 2))
    ELSE Str(NaT)


(***************************************************************************)
(* Data frames: the column labels (each with the number of blanks that     *)
(* pad it in the sheet) and the rows, each a function from column name to  *)
(* cell.  A column is found under its name only when its label carries no  *)
(* padding.                                                                *)
(***************************************************************************)
None == [k |-> "None"]

\* the key under which a row carries its index label (its position in the
\* sheet), which filtering keeps
Index == "(index)"

HasCol(d, col) == col \in DOMAIN d.cols /\ d.cols[col] = 0
Columns(d) == {c \in DOMAIN d.cols : d.cols[c] = 0}
\* the row as convert_to_eur sees it: indexed by the frame's column labels
RowOf(d, n) == [c \in Columns(d) |-> d.rows[n][c]]

\* df[col] = [vals[1], vals[2], ...]
SetColumn(d, col, vals) ==
    [cols |-> [c \in DOMAIN d.cols \cup {col} |-> IF c = col THEN 0 ELSE d.cols[c]],
     rows |-> [n \in 1..Len(d.rows) |->
                 [c \in DOMAIN d.rows[n] \cup {col} |->
                     IF c = col THEN vals[n] ELSE d.rows[n][c]]]]

RECURSIVE Flatten(_)
Flatten(ss) == IF ss = <<>> THEN <<>> ELSE Head(ss) \o Flatten(Tail(ss))

(***************************************************************************)
(* The sources the model uploads.                                          *)
(***************************************************************************)
AllColumns ==
    {"ORD DT", "ACCT", "ACCT NM", "ORD#", "CURR", "STATUS", "PU CTRY"} \cup CostSet

CellChars == {"0", "1", ",", ".", "-", " ", "\t"}
Texts(n) == UNION {[1..len -> CellChars] : len \in 0..n}

MoneyCells ==
    {NaN, Obj, Int0, Num(100, 0), Num(0 - 5, 0)} \cup {Str(s) : s \in Texts(MaxLen)}

GoodDate == Str(<<"2", "0", "2", "5", "-", "0", "1", "-", "1", "5">>)
BadDate == Str(<<"n", "/", "a">>)
XYZ == <<"x", "y", "z">>

MkRow(status, curr, date, acct, name, ctry, cost, net) ==
    [c \in AllColumns |->
        CASE c = "STATUS" -> status
          [] c = "CURR" -> curr
          [] c = "ORD DT" -> date
          [] c = "ACCT" -> acct
          [] c = "ACCT NM" -> name
          [] c = "PU CTRY" -> ctry
          [] c = "ORD#" -> Num(7, 0)
          [] c = "Total cost" -> cost
          [] c = "NET" -> net
          [] OTHER -> Int0]

AcctA == Str(<<"A">>)
AcctB == Str(<<"B">>)
DE == Str(<<"D", "E">>)
GB == Str(<<"G", "B">>)

\* one billed row whose total cost is any cell, in a known and in an
\* unknown currency
OneRowSources ==
    {[readable |-> TRUE, pad |-> [c \in AllColumns |-> 0],
      rows |-> <<MkRow(Str(BILLED), curr, Timestamp(2025, 3, 9),
                       Num(1, 0), AcctA, DE, cost, Num(120, 0))>>] :
        curr \in {Str(GBP), Str(XYZ)},
        cost \in MoneyCells}

\* one billed row under the currency cells that need care
CurrencySources ==
    {[readable |-> TRUE, pad |-> [c \in AllColumns |-> 0],
      rows |-> <<MkRow(Str(BILLED), curr, GoodDate, Num(1, 0), AcctA, DE, cost, Int0)>>] :
        curr \in {NaN, Obj, Str(EUR), Str(<<" ", " ">>), Str(<<"n", "a", "n">>),
                  Str(<<"k", "r", "w", "\t">>)},
        cost \in {Int0, Num(100, 0), Str(<<"1", ",", "1">>)}}

Profiles ==
    {[curr |-> Str(XYZ), date |-> GoodDate, acct |-> Num(1, 0), name |-> AcctA, ctry |-> DE],
     [curr |-> Str(<<" ", "g", "b", "p">>), date |-> GoodDate,
      acct |-> Num(2, 0), name |-> AcctB, ctry |-> GB],
     [curr |-> NaN, date |-> BadDate, acct |-> Num(1, 0), name |-> AcctA, ctry |-> GB]}

ManyRows ==
    {MkRow(Str(status), p.curr, p.date, p.acct, p.name, p.ctry, money[1], money[2]) :
        status \in {BILLED, PENDING}, p \in Profiles,
        money \in {<<Num(100, 0), Num(120, 0)>>, <<Int0, Int0>>}}

ManyRowSources ==
    {[readable |-> TRUE, pad |-> [c \in AllColumns |-> 0], rows |-> rs] :
        rs \in UNION {[1..len -> ManyRows] : len \in 0..MaxRows}}

HeaderRow ==
    MkRow(Str(BILLED), Str(GBP), GoodDate, Num(1, 0), AcctA, DE, Num(100, 0), Num(120, 0))

\* one column absent; every label padded; the file unreadable
HeaderSources ==
    {[readable |-> TRUE, pad |-> [c \in AllColumns \ {gone} |-> 0],
      rows |-> <<[c \in AllColumns \ {gone} |-> HeaderRow[c]]>>] : gone \in AllColumns}
    \cup {[readable |-> TRUE, pad |-> [c \in AllColumns |-> 1], rows |-> <<HeaderRow>>],
          [readable |-> FALSE, pad |-> [c \in AllColumns |-> 0], rows |-> <<HeaderRow>>]}

Sources == OneRowSources \cup CurrencySources \cup ManyRowSources \cup HeaderSources

(***************************************************************************)
(* The sources of the per-account views: sheets of billed orders.          *)
(***************************************************************************)
\* most orders of an enumerated sheet
MaxOrders == 2
\* most uploads that follow the first one
MaxUploads == 2

AcctC == Str(<<"C">>)

\* a billed order; its pickup country cell is empty
Order(acct, name, curr, cost, net, ord) ==
    [MkRow(Str(BILLED), Str(curr), GoodDate, acct, name, NaN, cost, net)
        EXCEPT !["ORD#"] = ord]

Sheet(rows) == [readable |-> TRUE, pad |-> [c \in AllColumns |-> 0], rows |-> rows]

OrderA1 == Order(Num(1, 0), AcctA, EUR, Num(100, 0), Num(120, 0), Num(7, 0))
OrderA2 == Order(Num(1, 0), AcctA, GBP, Num(50, 0), Int0, Num(8, 0))
OrderB == Order(Num(2, 0), AcctB, USD, Num(10, 0), Num(5, 0), Num(9, 0))

\* the orders above, an order without an account id, an order without an
\* order number and without cost, and an order of a third account that
\* cost and earned nothing
OrderKinds ==
    {OrderA1, OrderA2, OrderB,
     Order(NaN, AcctA, EUR, Num(100, 0), Num(120, 0), Num(7, 0)),
     Order(Num(2, 0), AcctB, EUR, Int0, Num(5, 0), NaN),
     Order(Num(3, 0), AcctC, EUR, Int0, Int0, Num(9, 0))}

OrderSources ==
    {Sheet(rs) : rs \in UNION {[1..len -> OrderKinds] : len \in 0..MaxOrders}}

\* three orders of two accounts in three currencies
ExampleSheet == Sheet(<<OrderA1, OrderA2, OrderB>>)

\* the example; an order without an account name beside one with it; a
\* sheet with a cell float() rejects; a file that cannot be read
EdgeSources ==
    {ExampleSheet,
     Sheet(<<Order(Num(1, 0), NaN, EUR, Num(100, 0), Num(120, 0), Num(7, 0)), OrderA1>>),
     Sheet(<<Order(Num(1, 0), AcctA, EUR, Obj, Int0, Num(7, 0))>>),
     [readable |-> FALSE, pad |-> [c \in AllColumns |-> 0], rows |-> <<>>]}

\* account k of a sheet of many accounts: the accounts up to `tied` cost
\* the same, every other account costs more than the one before it, and
\* the differences are all distinct
RankedOrder(k, tied) ==
    Order(Num(k, 0), AcctA, EUR, Num(10 * (IF k <= tied THEN tied ELSE k), 0),
          Num(k, 0), Num(k, 0))

\* eleven and twelve accounts, the last in key order first in the sheet
RankingSources ==
    {Sheet([n \in 1..len |-> RankedOrder(len + 1 - n, tied)]) :
        len \in {11, 12}, tied \in {1, 2, 3}}

\* the sheet without the columns of `gone`
Without(sheet, gone) ==
    [readable |-> sheet.readable,
     pad |-> [c \in DOMAIN sheet.pad \ gone |-> sheet.pad[c]],
     rows |-> [n \in 1..Len(sheet.rows) |->
                 [c \in DOMAIN sheet.rows[n] \ gone |-> sheet.rows[n][c]]]]

\* two orders in foreign currencies on a sheet that lacks one monetary
\* column, or all of them, or lacks NET while a total cost cell is one
\* float() rejects
SparseSources ==
    {Without(Sheet(<<OrderA2, OrderB>>), gone) : gone \in {{c} : c \in CostSet} \cup {CostSet}}
    \cup {Without(Sheet(<<OrderA2, Order(Num(2, 0), AcctB, USD, Obj, Int0, Num(9, 0))>>),
                  {"NET"})}

\* sheets for the report on losing accounts: an account that earns more
\* than it costs, one with cost and no NET, one with less NET than cost;
\* and two accounts with the same loss, one that costs and earns nothing,
\* and one with a negative NET and no cost
ReportSources ==
    {Sheet(<<Order(Num(1, 0), AcctA, EUR, Num(100, 0), Num(120, 0), Num(7, 0)),
             Order(Num(2, 0), AcctB, GBP, Num(50, 0), Int0, Num(8, 0)),
             Order(Num(3, 0), AcctC, USD, Num(10, 0), Num(5, 0), Num(9, 0))>>),
     Sheet(<<Order(Num(1, 0), AcctA, EUR, Num(10, 0), Int0, Num(7, 0)),
             Order(Num(2, 0), AcctB, EUR, Num(20, 0), Num(10, 0), Num(8, 0)),
             Order(Num(3, 0), AcctC, EUR, Int0, Int0, Num(9, 0)),
             Order(Num(4, 0), AcctC, EUR, Int0, Num(0 - 5, 0), Num(9, 0))>>)}

AggSources ==
    OrderSources \cup EdgeSources \cup RankingSources \cup SparseSources \cup ReportSources

\* the files of a session of several uploads
SessionSources ==
    {Sheet(<<OrderA1, OrderA2>>), Sheet(<<OrderB>>), Sheet(<<>>)} \cup EdgeSources

(***************************************************************************)
(* State.                                                                  *)
(***************************************************************************)
VARIABLES
    file,               \* the uploaded file, as pd.read_excel reads it
    pc,                 \* where the script run stands
    df,                 \* load_and_process_data's local frame
    i,                  \* position of a loop over cost_columns
    warnings,           \* st.sidebar.warning calls so far, by currency text
    errors,             \* st.error calls so far
    result,             \* what load_and_process_data returned (the script's df)
    selected_accounts,  \* the account multiselect
    selected_countries, \* the country multiselect
    filtered_df,        \* the script's filtered frame
    total_orders,       \* len(filtered_df)
    total_cost,         \* filtered_df['Total cost_EUR'].sum()
    total_net,          \* filtered_df['NET_EUR'].sum()
    difference,         \* total_net - total_cost
    avg_cost,           \* total_cost / total_orders, or 0
    account_summary,    \* the per-account frame of app1.py, by its rows
    negative_accounts,  \* the flagged accounts of app1.py's report, by their rows
    total_loss,         \* negative_accounts['Difference'].sum()
    account_costs,      \* the top-10 frame of app.py, by its rows
    account_diff,       \* the per-account difference frame of app.py, by its rows
    cache,              \* st.cache_data's entries for load_and_process_data
    uploads             \* files uploaded after the first one

vars == <<file, pc, df, i, warnings, errors, result,
          selected_accounts, selected_countries, filtered_df, total_orders,
          total_cost, total_net, difference, avg_cost, account_summary,
          negative_accounts, total_loss,
          account_costs, account_diff, cache, uploads>>

\* what the script shows
view == <<selected_accounts, selected_countries, filtered_df, total_orders,
          total_cost, total_net, difference, avg_cost, account_summary,
          negative_accounts, total_loss,
          account_costs, account_diff>>

\* the state after the first upload of a file of S, before the script runs
InitWith(S) ==
    /\ file \in S
    /\ pc = "read"
    /\ df = None
    /\ i = 0
    /\ warnings = <<>>
    /\ errors = <<>>
    /\ result = None
    /\ selected_accounts = {}
    /\ selected_countries = {}
    /\ filtered_df = None
    /\ total_orders = 0
    /\ total_cost = None
    /\ total_net = None
    /\ difference = None
    /\ avg_cost = None
    /\ account_summary = None
    /\ negative_accounts = None
    /\ total_loss = None
    /\ account_costs = None
    /\ account_diff = None
    /\ cache = <<>>
    /\ uploads = 0

Init == InitWith(Sources)

(***************************************************************************)
(* load_and_process_data, statement by statement.                          *)
(***************************************************************************)
\* df = pd.read_excel(file, sheet_name=0, thousands=',')
Read ==
    /\ pc = "read"
    /\ IF file.readable
       THEN /\ df' = [cols |-> file.pad,
                       rows |-> [n \in 1..Len(file.rows) |->
                                   file.rows[n] @@ (Index :> n)]]
            /\ pc' = "strip"
       ELSE /\ df' = df
            /\ pc' = "except"
    /\ UNCHANGED <<file, i, warnings, errors, result, view, cache, uploads>>

\* df.columns = df.columns.str.strip()
StripColumns ==
    /\ pc = "strip"
    /\ df' = [df EXCEPT !.cols = [c \in DOMAIN df.cols |-> 0]]
    /\ pc' = "filter"
    /\ UNCHANGED <<file, i, warnings, errors, result, view, cache, uploads>>

\* the status filter left out
BilledRows_unfiltered(rows) == rows

\* the rows df[df['STATUS'] == '440-BILLED'] keeps
BilledRows(rows) == SelectSeq(rows, LAMBDA r : r["STATUS"] = Str(BILLED))

\* df = df[df['STATUS'] == '440-BILLED'].copy()
FilterStatus ==
    /\ pc = "filter"
    /\ IF HasCol(df, "STATUS")
       THEN /\ df' = [df EXCEPT !.rows = BilledRows(df.rows)]
            /\ pc' = "date"
       ELSE /\ df' = df
            /\ pc' = "except"
    /\ UNCHANGED <<file, i, warnings, errors, result, view, cache, uploads>>

\* df['ORD DT'] = pd.to_datetime(df['ORD DT'], errors='coerce')
ConvertDate ==
    /\ pc = "date"
    /\ IF HasCol(df, "ORD DT")
       THEN /\ df' = SetColumn(df, "ORD DT",
                        [n \in 1..Len(df.rows) |-> to_datetime(df.rows[n]["ORD DT"])])
            /\ pc' = "clean"
            /\ i' = 1
       ELSE /\ df' = df
            /\ pc' = "except"
            /\ i' = i
    /\ UNCHANGED <<file, warnings, errors, result, view, cache, uploads>>

\* the column after df[col].apply(clean_numeric), or Raise
CleanedColumn(d, col) ==
    LET res == [n \in 1..Len(d.rows) |-> clean_numeric(d.rows[n][col])]
    IN  IF \E n \in 1..Len(d.rows) : res[n].raised THEN Raise
        ELSE Ret([n \in 1..Len(d.rows) |-> res[n].v])

\* one turn of: for col in cost_columns: if col in df.columns: df[col] = ...
CleanColumn ==
    /\ pc = "clean"
    /\ LET col == cost_columns[i]
           res == CleanedColumn(df, col)
       IN  IF HasCol(df, col) /\ res.raised
           THEN /\ df' = df
                /\ pc' = "except"
                /\ i' = i
           ELSE /\ df' = IF HasCol(df, col) THEN SetColumn(df, col, res.v) ELSE df
                /\ pc' = IF i = Len(cost_columns) THEN "convert" ELSE "clean"
                /\ i' = IF i = Len(cost_columns) THEN 1 ELSE i + 1
    /\ UNCHANGED <<file, warnings, errors, result, view, cache, uploads>>

\* df.apply(lambda row: convert_to_eur(row, col), axis=1): the values and
\* the warnings, row by row
ConvertedColumn(d, col) ==
    LET res == [n \in 1..Len(d.rows) |-> convert_to_eur(RowOf(d, n), col)]
    IN  [vals |-> [n \in 1..Len(d.rows) |-> res[n].v],
         warn |-> Flatten([n \in 1..Len(d.rows) |-> res[n].warn])]

\* the conversion loop without its else branch: df.apply on a column the
\* frame lacks raises KeyError
ConvertColumn_required ==
    /\ pc = "convert"
    /\ LET col == cost_columns[i]
           res == ConvertedColumn(df, col)
       IN  IF HasCol(df, col)
           THEN /\ df' = SetColumn(df, EurOf(col), res.vals)
                /\ warnings' = warnings \o res.warn
                /\ pc' = IF i = Len(cost_columns) THEN "fillna" ELSE "convert"
                /\ i' = IF i = Len(cost_columns) THEN 0 ELSE i + 1
           ELSE /\ df' = df
                /\ warnings' = warnings
                /\ pc' = "except"
                /\ i' = i
    /\ UNCHANGED <<file, errors, result, view, cache, uploads>>

\* one turn of: for col in cost_columns: df[f'{col}_EUR'] = ... (else 0)
ConvertColumn ==
    /\ pc = "convert"
    /\ LET col == cost_columns[i]
           res == ConvertedColumn(df, col)
       IN  IF HasCol(df, col)
           THEN /\ df' = SetColumn(df, EurOf(col), res.vals)
                /\ warnings' = warnings \o res.warn
           ELSE /\ df' = SetColumn(df, EurOf(col), [n \in 1..Len(df.rows) |-> Int0])
                /\ warnings' = warnings
    /\ pc' = IF i = Len(cost_columns) THEN "fillna" ELSE "convert"
    /\ i' = IF i = Len(cost_columns) THEN 0 ELSE i + 1
    /\ UNCHANGED <<file, errors, result, view, cache, uploads>>

\* df[f'{col}_EUR'] = df[f'{col}_EUR'].fillna(0), for every cost column
FillNa ==
    /\ pc = "fillna"
    /\ df' = [df EXCEPT !.rows =
                [n \in 1..Len(df.rows) |->
                    [c \in DOMAIN df.rows[n] |->
                        IF (\E col \in CostSet : c = EurOf(col)) /\ isna(df.rows[n][c])
                        THEN Int0 ELSE df.rows[n][c]]]]
    /\ pc' = "month"
    /\ UNCHANGED <<file, i, warnings, errors, result, view, cache, uploads>>

\* df['Month'] = df['ORD DT'].dt.to_period('M').astype(str)
\*               if 'ORD DT' in df.columns else 'Unknown'
Month ==
    /\ pc = "month"
    /\ df' = SetColumn(df, "Month",
                [n \in 1..Len(df.rows) |->
                    IF HasCol(df, "ORD DT") THEN MonthStr(df.rows[n]["ORD DT"])
                    ELSE Str(Unknown)])
    /\ pc' = "return"
    /\ UNCHANGED <<file, i, warnings, errors, result, view, cache, uploads>>

\* a key that does not tell one uploaded file from another
CacheKey_fixed(f) == "file"

\* the key st.cache_data files a call of load_and_process_data under: the
\* hash of its argument, the uploaded file's content
CacheKey(f) == f

\* what st.cache_data keeps of a call: the value returned and the messages
\* shown during the call, which a later hit shows again
Cached == [result |-> result', warnings |-> warnings', errors |-> errors']

\* the sidebar overview is written, then: return df
Return ==
    /\ pc = "return"
    /\ result' = df
    /\ pc' = "loaded"
    /\ UNCHANGED <<file, df, i, warnings, errors, view, uploads>>
    /\ cache' = (CacheKey(file) :> Cached) @@ cache

\* the error branch giving back the frame built so far
Except_partial ==
    /\ pc = "except"
    /\ errors' = errors \o <<"Error loading file",
                            "Please check that your Excel file has the correct format and columns">>
    /\ result' = df
    /\ pc' = IF df = None THEN "failed" ELSE "loaded"
    /\ UNCHANGED <<file, df, i, warnings, view, uploads>>
    /\ cache' = (CacheKey(file) :> Cached) @@ cache

\* except Exception as e: st.error(...); st.error(...); return None
Except ==
    /\ pc = "except"
    /\ errors' = errors \o <<"Error loading file",
                            "Please check that your Excel file has the correct format and columns">>
    /\ result' = None
    /\ pc' = "failed"
    /\ UNCHANGED <<file, df, i, warnings, view, uploads>>
    /\ cache' = (CacheKey(file) :> Cached) @@ cache

(***************************************************************************)
(* The script after a load that returned a frame: the two multiselects,    *)
(* the filtered frame, the key metrics, the per-account frame and the      *)
(* report on losing accounts.  A rerun with other selections takes the     *)
(* cached frame again.                                                     *)
(***************************************************************************)
\* df[col].dropna().unique()
Unique(d, col) == {d.rows[n][col] : n \in {m \in 1..Len(d.rows) : notna(d.rows[m][col])}}

\* df[df[col].isin(selected)]
IsIn(d, col, selected) ==
    [d EXCEPT !.rows = SelectSeq(d.rows, LAMBDA r : r[col] \in selected)]

\* the country filter taking the place of the account filter when both are set
Filtered_either(d, accounts, countries) ==
    IF countries # {} THEN IsIn(d, "PU CTRY", countries)
    ELSE IF accounts # {} THEN IsIn(d, "ACCT NM", accounts) ELSE d

\* filtered_df = df.copy(), then one isin per selection that is not empty
Filtered(d, accounts, countries) ==
    LET byAccount == IF accounts # {} THEN IsIn(d, "ACCT NM", accounts) ELSE d
    IN  IF countries # {} THEN IsIn(byAccount, "PU CTRY", countries) ELSE byAccount

\* the same in app.py, where a status selection stands between the two
Filtered_app(d, accounts, statuses, countries) ==
    LET byAccount == IF accounts # {} THEN IsIn(d, "ACCT NM", accounts) ELSE d
        byStatus == IF statuses # {} THEN IsIn(byAccount, "STATUS", statuses) ELSE byAccount
    IN  IF countries # {} THEN IsIn(byStatus, "PU CTRY", countries) ELSE byStatus

RECURSIVE Gcd(_, _)
Gcd(a, b) == IF b = 0 THEN a ELSE Gcd(b, a % b)

\* total / n for a float total and a count n > 0, computed exactly: the
\* fraction num / den in lowest terms, den > 0
TrueDiv(total, n) ==
    LET num == IF total.e >= 0 THEN total.m * (10 ^ total.e) ELSE total.m
        den == IF total.e >= 0 THEN n ELSE n * (10 ^ (0 - total.e))
        g == Gcd(IF num < 0 THEN 0 - num ELSE num, den)
    IN  [k |-> "frac", num |-> num \div g, den |-> den \div g]

\* the average without its test of the count: 0 / 0 over no records
AvgCost_unguarded(total, n) == IF n > 0 THEN TrueDiv(total, n) ELSE NaN

\* avg_cost = total_cost / total_orders if total_orders > 0 else 0
AvgCost(total, n) == IF n > 0 THEN TrueDiv(total, n) ELSE Int0

\* df[col] as the sequence of its cells
Column(rows, col) == [n \in 1..Len(rows) |-> rows[n][col]]

\* 'first' in place of 'sum'
Sum_first(vals) == IF vals = <<>> THEN Int0 ELSE vals[1]

\* 'last' in place of 'sum'
Sum_last(vals) == IF vals = <<>> THEN Int0 ELSE vals[Len(vals)]

\* Series.sum() and the 'sum' of a group: the cells added up in row order
RECURSIVE Sum(_)
Sum(vals) ==
    IF vals = <<>> THEN Int0
    ELSE Add(Sum(SubSeq(vals, 1, Len(vals) - 1)), vals[Len(vals)])

\* the 'count' of a group: its cells that are not missing
Count_notna(vals) == Cardinality({n \in 1..Len(vals) : notna(vals[n])})

\* the order of the group keys: numbers by value, text by code point (the
\* model's account names are capital letters)
Ord(ch) == CHOOSE n \in 1..26 : Upper[n] = ch
RECURSIVE TextLt(_, _)
TextLt(s, t) ==
    IF t = <<>> THEN FALSE
    ELSE IF s = <<>> THEN TRUE
    ELSE IF Head(s) = Head(t) THEN TextLt(Tail(s), Tail(t))
    ELSE Ord(Head(s)) < Ord(Head(t))
CellLt(a, b) == IF a.k = "num" THEN Lt(a, b) ELSE TextLt(a.s, b.s)
KeyLt(a, b) == CellLt(a[1], b[1]) \/ (a[1] = b[1] /\ CellLt(a[2], b[2]))

\* the key of a row under groupby(['ACCT', 'ACCT NM'])
Key(r) == <<r["ACCT"], r["ACCT NM"]>>
\* the keys of the groups: a row with a missing key cell is in no group
\* (dropna=True)
GroupKeys(rows) ==
    {Key(rows[n]) : n \in {m \in 1..Len(rows) :
                            notna(rows[m]["ACCT"]) /\ notna(rows[m]["ACCT NM"])}}
\* the groups come out in ascending key order (sort=True)
RECURSIVE SortedKeys(_)
SortedKeys(S) ==
    IF S = {} THEN <<>>
    ELSE LET k == CHOOSE k \in S : \A o \in S \ {k} : KeyLt(k, o)
         IN  <<k>> \o SortedKeys(S \ {k})
Group(rows, key) == SelectSeq(rows, LAMBDA r : Key(r) = key)

\* filtered_df.groupby(['ACCT', 'ACCT NM']).agg({c: 'sum' for c in sums,
\* 'ORD#': 'count'}).reset_index(), as the sequence of its rows
GroupByAccount(rows, sums) ==
    LET keys == SortedKeys(GroupKeys(rows))
    IN  [g \in 1..Len(keys) |->
            [c \in {"ACCT", "ACCT NM", "ORD#"} \cup sums |->
                CASE c = "ACCT" -> keys[g][1]
                  [] c = "ACCT NM" -> keys[g][2]
                  [] c = "ORD#" -> Count_notna(Column(Group(rows, keys[g]), "ORD#"))
                  [] OTHER -> Sum(Column(Group(rows, keys[g]), c))]]

\* frame[name] = frame[a] - frame[b]
WithDifference(rows, name, a, b) ==
    [g \in 1..Len(rows) |-> rows[g] @@ (name :> Sub(rows[g][a], rows[g][b]))]

\* the per-account frame of app1.py, with its Difference column
AccountSummary(rows) ==
    WithDifference(
        GroupByAccount(rows, {"Total cost_EUR", "NET_EUR", "PU COST_EUR",
                              "SHIP COST_EUR", "MAN COST_EUR", "DEL COST_EUR"}),
        "Difference", "NET_EUR", "Total cost_EUR")

\* the ways to put the members of S in a row
Arrangements(S) ==
    {p \in [1..Cardinality(S) -> S] :
        \A a, b \in 1..Cardinality(S) : a # b => p[a] # p[b]}

\* the row orders sort_values(ascending=False) may leave, val being the
\* sort values: descending, and rows of equal value in any order, because
\* the default sort (quicksort) is not stable
RECURSIVE Descending(_, _)
Descending(S, val) ==
    IF S = {} THEN {<<>>}
    ELSE LET top == {n \in S : \A o \in S : Le(val[o], val[n])}
         IN  {p \o q : p \in Arrangements(top), q \in Descending(S \ top, val)}

Reordered(rows, order) == [n \in 1..Len(rows) |-> rows[order[n]]]

\* the row orders sort_values() may leave: ascending, rows of equal value
\* in any order
Ascending(S, val) == Descending(S, [n \in DOMAIN val |-> Neg(val[n])])

\* the mask of the report flagging every account without NET
Flagged_no_net(r) ==
    \/ Lt(r["Difference"], Int0)
    \/ r["NET_EUR"] = Int0

\* (account_summary['Difference'] < 0) |
\* ((account_summary['Total cost_EUR'] > 0) & (account_summary['NET_EUR'] == 0))
Flagged(r) ==
    \/ Lt(r["Difference"], Int0)
    \/ (Lt(Int0, r["Total cost_EUR"]) /\ r["NET_EUR"] = Int0)

\* negative_accounts before it is sorted
NegativeAccounts(summary) == SelectSeq(summary, Flagged)

\* total_loss = negative_accounts['Difference'].sum(), in the branch of a
\* report that is not empty
TotalLoss(flagged) ==
    IF Len(flagged) = 0 THEN None ELSE Sum(Column(flagged, "Difference"))

ApplyFilters ==
    /\ pc \in {"loaded", "view"}
    /\ IF HasCol(result, "ACCT NM") /\ HasCol(result, "PU CTRY")
       THEN \E accounts \in SUBSET Unique(result, "ACCT NM"),
               countries \in SUBSET Unique(result, "PU CTRY") :
                LET f == Filtered(result, accounts, countries)
                    cost == Sum(Column(f.rows, "Total cost_EUR"))
                    net == Sum(Column(f.rows, "NET_EUR"))
                IN  /\ selected_accounts' = accounts
                    /\ selected_countries' = countries
                    /\ filtered_df' = f
                    /\ total_orders' = Len(f.rows)
                    /\ total_cost' = cost
                    /\ total_net' = net
                    /\ difference' = Sub(net, cost)
                    /\ avg_cost' = AvgCost(cost, Len(f.rows))
                    /\ account_costs' = None
                    /\ account_diff' = None
                    /\ IF HasCol(f, "ACCT") /\ HasCol(f, "ORD#")
                       THEN \E summary \in {AccountSummary(f.rows)} :
                             \E flagged \in {NegativeAccounts(summary)} :
                              \E order \in Ascending(1..Len(flagged),
                                                      Column(flagged, "Difference")) :
                                /\ account_summary' = [rows |-> summary]
                                /\ total_loss' = TotalLoss(flagged)
                                /\ negative_accounts' = [rows |-> Reordered(flagged, order)]
                                /\ pc' = "view"
                       ELSE \* filtered_df['ACCT'] or the 'ORD#' count raises
                            \* KeyError: the run stops below the key metrics
                            /\ account_summary' = None
                            /\ negative_accounts' = None
                            /\ total_loss' = None
                            /\ pc' = "crashed"
       ELSE \* df['ACCT NM'] or df['PU CTRY'] raises KeyError: the run stops
            /\ pc' = "crashed"
            /\ UNCHANGED view
    /\ UNCHANGED <<file, df, i, warnings, errors, result, cache, uploads>>

Next ==
    \/ Read
    \/ StripColumns
    \/ FilterStatus
    \/ ConvertDate
    \/ CleanColumn
    \/ ConvertColumn
    \/ FillNa
    \/ Month
    \/ Return
    \/ Except
    \/ ApplyFilters

Spec == Init /\ [][Next]_vars

(***************************************************************************)
(* The per-account views of app.py, computed over the same filtered frame. *)
(***************************************************************************)
\* head without a limit
head_all(rows, n) == rows

\* frame.head(n)
head(rows, n) == SubSeq(rows, 1, IF Len(rows) < n THEN Len(rows) ELSE n)

\* frame.columns = [...]: names gives each new label its old one
Renamed(rows, names) ==
    [g \in 1..Len(rows) |-> [c \in DOMAIN names |-> rows[g][names[c]]]]

\* app.py: account_costs before it is sorted
AccountCostsFrame(rows) ==
    WithDifference(
        Renamed(GroupByAccount(rows, {"Total cost_EUR", "NET_EUR"}),
                ("Account" :> "ACCT") @@ ("Account Name" :> "ACCT NM")
                @@ ("Total Cost" :> "Total cost_EUR") @@ ("NET" :> "NET_EUR")
                @@ ("Orders" :> "ORD#")),
        "Difference", "NET", "Total Cost")

\* account_costs = ....sort_values('Total Cost', ascending=False).head(10)
AccountCosts ==
    /\ pc = "view"
    /\ \E frame \in {AccountCostsFrame(filtered_df.rows)} :
         \E val \in {Column(frame, "Total Cost")} :
            \E order \in Descending(1..Len(frame), val) :
                account_costs' = [rows |-> head(Reordered(frame, order), 10)]
    /\ UNCHANGED <<file, pc, df, i, warnings, errors, result, selected_accounts,
                   selected_countries, filtered_df, total_orders, total_cost,
                   total_net, difference, avg_cost, account_summary, account_diff,
                   negative_accounts, total_loss,
                   cache, uploads>>

\* app.py: account_diff with its 'Diff %' column, before it is sorted
AccountDiffFrame(rows) ==
    LET frame ==
            WithDifference(
                Renamed(GroupByAccount(rows, {"Total cost_EUR", "NET_EUR"}),
                        ("Account" :> "ACCT") @@ ("Account Name" :> "ACCT NM")
                        @@ ("Total Cost (EUR)" :> "Total cost_EUR")
                        @@ ("NET (EUR)" :> "NET_EUR") @@ ("Orders" :> "ORD#")),
                "Difference (EUR)", "NET (EUR)", "Total Cost (EUR)")
    IN  [g \in 1..Len(frame) |->
            frame[g] @@ ("Diff %" :> PercentOf(frame[g]["Difference (EUR)"],
                                               frame[g]["Total Cost (EUR)"]))]

\* the difference frame written into the filtered frame
AccountDiff_inplace ==
    /\ pc = "view"
    /\ account_diff' = [rows |-> AccountDiffFrame(filtered_df.rows)]
    /\ filtered_df' = [filtered_df EXCEPT !.rows = AccountDiffFrame(filtered_df.rows)]
    /\ UNCHANGED <<file, pc, df, i, warnings, errors, result, selected_accounts,
                   selected_countries, total_orders, total_cost,
                   total_net, difference, avg_cost, account_summary, account_costs,
                   negative_accounts, total_loss,
                   cache, uploads>>

\* account_diff = ....sort_values('Difference (EUR)', ascending=False, key=abs)
\* (the values; the script then formats them as text for the table)
AccountDiff ==
    /\ pc = "view"
    /\ \E frame \in {AccountDiffFrame(filtered_df.rows)} :
         \E size \in {[g \in 1..Len(frame) |-> Abs(frame[g]["Difference (EUR)"])]} :
            \E order \in Descending(1..Len(frame), size) :
                account_diff' = [rows |-> Reordered(frame, order)]
    /\ UNCHANGED <<file, pc, df, i, warnings, errors, result, selected_accounts,
                   selected_countries, filtered_df, total_orders, total_cost,
                   total_net, difference, avg_cost, account_summary, account_costs,
                   negative_accounts, total_loss,
                   cache, uploads>>

AggInit == InitWith(AggSources)

AggNext ==
    \/ Next
    \/ AccountCosts
    \/ AccountDiff

AggSpec == AggInit /\ [][AggNext]_vars

(***************************************************************************)
(* Another file is uploaded: the script runs again from its first line.    *)
(* load_and_process_data is wrapped in st.cache_data, so a call with a     *)
(* file it has seen returns what the earlier call returned and shows the   *)
(* messages of that call again, without running the function.              *)
(***************************************************************************)
Upload ==
    /\ pc \in {"loaded", "view", "crashed", "failed"}
    /\ uploads < MaxUploads
    /\ uploads' = uploads + 1
    /\ \E f \in SessionSources :
        /\ file' = f
        /\ IF CacheKey(f) \in DOMAIN cache
           THEN /\ result' = cache[CacheKey(f)].result
                /\ warnings' = cache[CacheKey(f)].warnings
                /\ errors' = cache[CacheKey(f)].errors
                /\ pc' = IF cache[CacheKey(f)].result = None THEN "failed" ELSE "loaded"
           ELSE /\ result' = None
                /\ warnings' = <<>>
                /\ errors' = <<>>
                /\ pc' = "read"
    /\ df' = None
    /\ i' = 0
    /\ selected_accounts' = {}
    /\ selected_countries' = {}
    /\ filtered_df' = None
    /\ total_orders' = 0
    /\ total_cost' = None
    /\ total_net' = None
    /\ difference' = None
    /\ avg_cost' = None
    /\ account_summary' = None
    /\ negative_accounts' = None
    /\ total_loss' = None
    /\ account_costs' = None
    /\ account_diff' = None
    /\ UNCHANGED cache

SessionInit == InitWith(SessionSources)

SessionNext ==
    \/ AggNext
    \/ Upload

SessionSpec == SessionInit /\ [][SessionNext]_vars


(***************************************************************************)
(* Vocabulary of the properties.                                           *)
(***************************************************************************)
\* load_and_process_data has returned a frame
Loaded == pc \in {"loaded", "view", "crashed"}
\* every cost column has been through clean_numeric
PostClean == pc \in {"convert", "fillna", "month", "return"} \/ Loaded
Rows == 1..Len(df.rows)
\* the cost columns the sheet holds
Present == CostSet \cap DOMAIN file.pad
\* the cell of the sheet a cell of the frame comes from
RawCell(n, col) == file.rows[df.rows[n][Index]][col]
\* the positions of the sheet's billed rows
BilledPositions == {n \in 1..Len(file.rows) : file.rows[n]["STATUS"] = Str(BILLED)}

HasCurr(n) == "CURR" \in Columns(df)
\* the row's currency code as the spec reads it: trimmed and upper-cased
CodeOf(n) == upper(strip(PyStr(df.rows[n]["CURR"])))
Recognized(n) ==
    HasCurr(n) /\ notna(df.rows[n]["CURR"]) /\ CodeOf(n) \in DOMAIN EXCHANGE_RATES
Unrecognized(n) ==
    HasCurr(n) /\ notna(df.rows[n]["CURR"]) /\ CodeOf(n) \notin DOMAIN EXCHANGE_RATES
Absent(n) == HasCurr(n) /\ isna(df.rows[n]["CURR"])

Count(seq, x) == Cardinality({p \in 1..Len(seq) : seq[p] = x})
\* the non-zero monetary cells of the rows that carry the code
CellsOf(code) ==
    {<<n, col>> \in Rows \X Present :
        Unrecognized(n) /\ CodeOf(n) = code /\ ~IsZero(df.rows[n][col])}

\* the text spells a number once commas and blanks are taken out
Spelled(c) == FloatText(replace(replace(c.s, ","), " "))
Malformed(c) == c.k = "str" /\ ~Spelled(c).ok
Blank(c) == isna(c) \/ (c.k = "str" /\ \A p \in 1..Len(c.s) : c.s[p] = " ")
Negative(c) ==
    \/ c.k = "num" /\ c.m < 0
    \/ c.k = "str" /\ Spelled(c).ok /\ Spelled(c).v.m < 0

(***************************************************************************)
(* C1.  After a successful ingestion the frame holds exactly the sheet's   *)
(* rows whose STATUS is "440-BILLED", in sheet order, none dropped and     *)
(* none of another status kept; every filtered frame holds only such rows, *)
(* and with no selection the order count is the number of billed rows of   *)
(* the sheet.                                                              *)
(***************************************************************************)
C1_StatusFilter ==
    Loaded =>
        /\ Len(result.rows) = Cardinality(BilledPositions)
        /\ {result.rows[n][Index] : n \in 1..Len(result.rows)} = BilledPositions
        /\ \A n, m \in 1..Len(result.rows) :
                n < m => result.rows[n][Index] < result.rows[m][Index]
        /\ \A n \in 1..Len(result.rows) : result.rows[n]["STATUS"] = Str(BILLED)
        /\ pc = "view" =>
            /\ \A n \in 1..Len(filtered_df.rows) :
                    /\ filtered_df.rows[n]["STATUS"] = Str(BILLED)
                    /\ \E m \in 1..Len(result.rows) : result.rows[m] = filtered_df.rows[n]
            /\ total_orders = Len(filtered_df.rows)
            /\ (selected_accounts = {} /\ selected_countries = {})
                    => total_orders = Cardinality(BilledPositions)

\* a sheet of one billed and one other row, shown unfiltered: one order
W1_StatusFilter ==
    /\ pc = "view"
    /\ selected_accounts = {} /\ selected_countries = {}
    /\ Len(file.rows) = 2
    /\ Cardinality(BilledPositions) = 1
    /\ total_orders = 1

(***************************************************************************)
(* C2.  For every retained row whose currency code, trimmed and            *)
(* upper-cased, is a key of EXCHANGE_RATES, and every monetary column of   *)
(* the sheet, the _EUR field is the cleaned amount times the rate of the   *)
(* code.                                                                   *)
(***************************************************************************)
C2_RecognizedRate ==
    Loaded =>
        \A n \in Rows, col \in Present :
            Recognized(n) =>
                df.rows[n][EurOf(col)] = Mul(df.rows[n][col], EXCHANGE_RATES[CodeOf(n)])

\* total cost 100 in " gbp" gives 117
W2_RecognizedRate ==
    /\ "Total cost" \in Present
    /\ Loaded
    /\ \E n \in Rows :
        /\ Recognized(n)
        /\ df.rows[n]["CURR"] # Str(GBP)
        /\ CodeOf(n) = GBP
        /\ df.rows[n]["Total cost"] = Num(100, 0)
        /\ df.rows[n]["Total cost_EUR"] = Num(117, 0)

(***************************************************************************)
(* C3.  For every row with an unrecognized currency code each _EUR amount  *)
(* equals the cleaned amount, and the unknown-currency warning is recorded *)
(* exactly once for each distinct unknown code that a non-zero amount was  *)
(* looked up under, however many rows and columns carry the code.          *)
(***************************************************************************)
X3_WarnedOncePerCode ==
    Loaded =>
        /\ \A n \in Rows, col \in Present :
                Unrecognized(n) => df.rows[n][EurOf(col)] = df.rows[n][col]
        /\ \A n \in Rows :
                (Unrecognized(n) /\ CellsOf(CodeOf(n)) # {})
                    => Count(warnings, CodeOf(n)) = 1

(***************************************************************************)
(* C4.  A sheet without the STATUS column or without the CURR column never *)
(* gives a returned frame: ingestion ends in the error branch, with an     *)
(* error shown and nothing returned.                                       *)
(***************************************************************************)
X4_RequiredColumns ==
    /\ (Loaded \/ pc = "return")
            => ("STATUS" \in DOMAIN file.pad /\ "CURR" \in DOMAIN file.pad)
    /\ (pc = "failed" => errors # <<>> /\ result = None)

(***************************************************************************)
(* C5.  For a readable sheet that holds every expected column, whatever    *)
(* its cells, no exception leaves clean_numeric or convert_to_eur and      *)
(* ingestion never takes the error branch.                                 *)
(***************************************************************************)
X5_RowDefectsNeverAbort ==
    (file.readable /\ DOMAIN file.pad = AllColumns) => pc \notin {"except", "failed"}

(***************************************************************************)
(* C6 as written.  After cleaning every monetary field of every record is  *)
(* a number that is zero or positive.                                      *)
(***************************************************************************)
X6_NonNegative ==
    PostClean =>
        \A n \in Rows, col \in Present :
            df.rows[n][col].k = "num" /\ df.rows[n][col].m >= 0

(***************************************************************************)
(* C6 as amended.  After cleaning every monetary field is a number;        *)
(* malformed or blank values are zero; a field is negative exactly when    *)
(* its cell in the sheet is a negative number or text that spells one, so  *)
(* every other field is zero or positive.                                  *)
(***************************************************************************)
C6_SignKept ==
    PostClean =>
        \A n \in Rows, col \in Present :
            /\ df.rows[n][col].k = "num"
            /\ (Blank(RawCell(n, col)) \/ Malformed(RawCell(n, col)))
                    => df.rows[n][col].m = 0
            /\ df.rows[n][col].m < 0 <=> Negative(RawCell(n, col))

\* the text "-1" cleaned to -1
W6_SignKept ==
    /\ "Total cost" \in Present
    /\ PostClean
    /\ \E n \in Rows :
        /\ RawCell(n, "Total cost") = Str(<<"-", "1">>)
        /\ df.rows[n]["Total cost"] = Num(0 - 1, 0)

(***************************************************************************)
(* C7.  A text cell with commas or with white space around it is cleaned   *)
(* to the amount clean_numeric gives for the same text with the commas     *)
(* taken out and the white space trimmed; and by the time any _EUR column  *)
(* exists every monetary column of the sheet holds cleaned numbers.        *)
(***************************************************************************)
SeparatorFree(s) == strip(replace(s, ","))

C7_SeparatorsIgnored ==
    /\ PostClean =>
        \A n \in Rows, col \in Present :
            RawCell(n, col).k = "str" =>
                df.rows[n][col] = clean_numeric(Str(SeparatorFree(RawCell(n, col).s))).v
    /\ (df # None /\ \E col \in CostSet : EurOf(col) \in DOMAIN df.cols) =>
        /\ PostClean
        /\ \A n \in Rows, col \in Present : df.rows[n][col].k = "num"

\* the text "1,1" cleaned to 11
W7_SeparatorsIgnored ==
    /\ "Total cost" \in Present
    /\ Loaded
    /\ \E n \in Rows :
        /\ RawCell(n, "Total cost") = Str(<<"1", ",", "1">>)
        /\ df.rows[n]["Total cost"] = Num(11, 0)

(***************************************************************************)
(* C8 as written.  For every row whose currency cell is missing each       *)
(* monetary value is passed through unconverted and, where a non-zero      *)
(* value was converted, a warning is recorded as for an unrecognized code. *)
(***************************************************************************)
X8_AbsentWarned ==
    Loaded =>
        \A n \in Rows :
            Absent(n) =>
                /\ \A col \in Present : df.rows[n][EurOf(col)] = df.rows[n][col]
                /\ (\E col \in Present : ~IsZero(df.rows[n][col])) => warnings # <<>>

(***************************************************************************)
(* C8 as amended.  For every row whose currency cell is missing each       *)
(* monetary value is passed through unconverted and no warning is recorded *)
(* for it: every warning recorded names the code of a row whose currency   *)
(* cell is present, and is one of the warnings that row's non-zero values  *)
(* account for.  The convert_to_eur of app.py does the same with a number. *)
(***************************************************************************)
C8_AbsentSilent ==
    /\ Loaded =>
        /\ \A n \in Rows, col \in Present :
                Absent(n) => df.rows[n][EurOf(col)] = df.rows[n][col]
        /\ \A p \in 1..Len(warnings) :
                Count(warnings, warnings[p]) = Cardinality(CellsOf(warnings[p]))
    /\ \A n \in 1..Len(file.rows), col \in Present :
            ("CURR" \in DOMAIN file.rows[n] /\ isna(file.rows[n]["CURR"])
                /\ file.rows[n][col].k = "num")
            => convert_to_eur_app(file.rows[n], col)
                    = [v |-> file.rows[n][col], warn |-> <<>>]

\* a row without a currency: 100 stays 100 and nothing is warned
W8_AbsentSilent ==
    /\ "Total cost" \in Present
    /\ Loaded
    /\ warnings = <<>>
    /\ \E n \in Rows :
        /\ Absent(n)
        /\ df.rows[n]["Total cost"] = Num(100, 0)
        /\ df.rows[n]["Total cost_EUR"] = Num(100, 0)

(***************************************************************************)
(* C9.  A cleaned value of zero converts to zero and records no warning,   *)
(* also under an unknown currency code: the warnings recorded are exactly  *)
(* those of the non-zero values of rows with an unknown code.  The         *)
(* convert_to_eur of app.py returns 0 for a zero or missing cell and       *)
(* warns of nothing.                                                       *)
(***************************************************************************)
C9_ZeroShortCircuit ==
    /\ Loaded =>
        /\ \A n \in Rows, col \in Present :
                IsZero(df.rows[n][col]) => IsZero(df.rows[n][EurOf(col)])
        /\ Len(warnings) =
                Cardinality({<<n, col>> \in Rows \X Present :
                    /\ Unrecognized(n)
                    /\ CodeOf(n) \notin {<<>>, NAN}
                    /\ ~IsZero(df.rows[n][col])})
    /\ \A n \in 1..Len(file.rows), col \in Present :
            (IsZero(file.rows[n][col]) \/ isna(file.rows[n][col]))
            => convert_to_eur_app(file.rows[n], col) = [v |-> Int0, warn |-> <<>>]

\* a row in the unknown currency "XYZ" whose amounts are all zero: the _EUR
\* fields are zero and nothing is warned
W9_ZeroShortCircuit ==
    /\ Loaded
    /\ warnings = <<>>
    /\ \E n \in Rows :
        /\ Unrecognized(n)
        /\ CodeOf(n) = upper(XYZ)
        /\ \A col \in Present : IsZero(df.rows[n][col]) /\ IsZero(df.rows[n][EurOf(col)])

(***************************************************************************)
(* C10.  Every retained record whose order date fails to parse stays in    *)
(* the frame and has the month key "Unknown".                              *)
(***************************************************************************)
X10_UnknownMonth ==
    Loaded =>
        /\ {df.rows[n][Index] : n \in Rows} = BilledPositions
        /\ \A n \in Rows :
                isna(df.rows[n]["ORD DT"]) => df.rows[n]["Month"] = Str(Unknown)

(***************************************************************************)
(* Vocabulary of the properties about the views.                           *)
(***************************************************************************)
\* nothing is computed or shown of the filtered frame
NoView ==
    /\ filtered_df = None
    /\ total_cost = None /\ total_net = None /\ difference = None
    /\ account_summary = None /\ account_costs = None /\ account_diff = None
\* the report of the error branch
ExceptReport ==
    <<"Error loading file",
      "Please check that your Excel file has the correct format and columns">>
\* the rows of the returned frame
Records == 1..Len(result.rows)

(***************************************************************************)
(* C11.  Ingestion is all or nothing.  When load_and_process_data has      *)
(* returned a frame, no error was reported and the frame is complete: one  *)
(* record for every billed row of the sheet, each with its seven _EUR      *)
(* amounts as numbers and its month key.  When it has failed, the error    *)
(* branch reported once, None was returned, and nothing is computed or     *)
(* shown of any frame, however far the frame had been built.  Until either *)
(* has happened there is no returned frame and no view.                    *)
(***************************************************************************)
C11_AllOrNothing ==
    /\ Loaded =>
        /\ errors = <<>>
        /\ result # None
        /\ Len(result.rows) = Cardinality(BilledPositions)
        /\ \A n \in Records :
            /\ \A col \in CostSet : result.rows[n][EurOf(col)].k = "num"
            /\ result.rows[n]["Month"].k = "str"
    /\ pc = "failed" =>
        /\ errors = ExceptReport
        /\ result = None
        /\ NoView
    /\ ~Loaded => (result = None /\ NoView)

\* a cell that float() rejects stops ingestion after the frame was filtered
\* and its dates converted: nothing of that frame is returned or shown
W11_AllOrNothing ==
    /\ pc = "failed"
    /\ df # None
    /\ "ORD DT" \in DOMAIN file.pad
    /\ Len(df.rows) = 1
    /\ df.rows[1]["ORD DT"].k = "date"
    /\ result = None
    /\ NoView

\* the filtered records and the account aggregates of app1.py
Shown == 1..Len(filtered_df.rows)
Aggregates == 1..Len(account_summary.rows)
\* the filtered records of an aggregate's (account id, account name)
Partition(g) ==
    {n \in Shown : /\ filtered_df.rows[n]["ACCT"] = account_summary.rows[g]["ACCT"]
                   /\ filtered_df.rows[n]["ACCT NM"] = account_summary.rows[g]["ACCT NM"]}

(***************************************************************************)
(* C12.  For every account aggregate the margin is its NET sum minus its   *)
(* total-cost sum, and the margins of all account aggregates add up to the *)
(* displayed difference, the NET total minus the cost total of the         *)
(* filtered records, also when records lack an account id or name.         *)
(***************************************************************************)
X12_MarginsAddUp ==
    pc = "view" =>
        /\ \A g \in Aggregates :
                account_summary.rows[g]["Difference"]
                    = Sub(account_summary.rows[g]["NET_EUR"], account_summary.rows[g]["Total cost_EUR"])
        /\ Sum(Column(account_summary.rows, "Difference")) = difference
        /\ difference = Sub(total_net, total_cost)

(***************************************************************************)
(* C13.  In the difference table an account whose total-cost sum is        *)
(* exactly zero has no percentage: the cell is the absent value, never     *)
(* zero and never an infinity.                                             *)
(***************************************************************************)
X13_UndefinedPercent ==
    (pc = "view" /\ account_diff # None) =>
        \A g \in 1..Len(account_diff.rows) :
            IsZero(account_diff.rows[g]["Total Cost (EUR)"])
                => isna(account_diff.rows[g]["Diff %"])

(***************************************************************************)
(* C14.  The sheet of three billed orders (account A: cost 100 EUR, net    *)
(* 120 EUR; account A: cost 50 GBP, net 0 GBP; account B: cost 10 USD, net *)
(* 5 USD), shown unfiltered, gives account A total cost 158.50, net 120,   *)
(* margin -38.50, account B total cost 9.20, net 4.60, margin -4.60, and   *)
(* the grand total cost 167.70.                                            *)
(***************************************************************************)
C14_WorkedExample ==
    (pc = "view" /\ file = ExampleSheet /\ selected_accounts = {}) =>
        /\ Len(account_summary.rows) = 2
        /\ account_summary.rows[1]["ACCT NM"] = AcctA
        /\ account_summary.rows[1]["Total cost_EUR"] = Num(1585, 0 - 1)
        /\ account_summary.rows[1]["NET_EUR"] = Num(120, 0)
        /\ account_summary.rows[1]["Difference"] = Num(0 - 385, 0 - 1)
        /\ account_summary.rows[2]["ACCT NM"] = AcctB
        /\ account_summary.rows[2]["Total cost_EUR"] = Num(92, 0 - 1)
        /\ account_summary.rows[2]["NET_EUR"] = Num(46, 0 - 1)
        /\ account_summary.rows[2]["Difference"] = Num(0 - 46, 0 - 1)
        /\ total_cost = Num(1677, 0 - 1)

\* the example sheet ingested and shown unfiltered: three orders, two
\* aggregates, one of two orders
W14_WorkedExample ==
    /\ pc = "view"
    /\ file = ExampleSheet
    /\ selected_accounts = {}
    /\ total_orders = 3
    /\ Len(account_summary.rows) = 2
    /\ account_summary.rows[1]["ORD#"] = 2

\* the row orders a frame of n rows is tried in
Exchanged(n, a) ==
    [p \in 1..n |-> IF p = a THEN a + 1 ELSE IF p = a + 1 THEN a ELSE p]
Shuffles(n) ==
    IF n <= MaxOrders + 1 THEN Arrangements(1..n)
    ELSE {Exchanged(n, a) : a \in 1..(n - 1)} \cup {[p \in 1..n |-> n + 1 - p]}

RowSet(frame) == {frame.rows[g] : g \in 1..Len(frame.rows)}

(***************************************************************************)
(* C16.  Computing views changes nothing they are computed from.  Every    *)
(* step taken once load_and_process_data has returned (setting the         *)
(* filters, computing the key metrics and the per-account frames) leaves   *)
(* the returned records as they are; computing a per-account frame of      *)
(* app.py leaves the filtered records, the selections and every other view *)
(* as they are; and computing again over the same filtered records gives   *)
(* the same key metrics, the same account_summary, the same total costs in *)
(* account_costs and the same rows in account_diff.  (The rate table is a  *)
(* constant of the model: no statement of either script assigns to it.)    *)
(***************************************************************************)
C16_ViewsArePure ==
    [][Loaded =>
        /\ result' = result
        /\ (pc' = "view" /\ filtered_df' = filtered_df) =>
            /\ (pc = "view") =>
                /\ total_orders' = total_orders
                /\ total_cost' = total_cost
                /\ total_net' = total_net
                /\ difference' = difference
                /\ account_summary' = account_summary
            /\ (account_costs # None /\ account_costs' # None) =>
                Column(account_costs'.rows, "Total Cost")
                    = Column(account_costs.rows, "Total Cost")
            /\ (account_diff # None /\ account_diff' # None) =>
                RowSet(account_diff') = RowSet(account_diff)
        /\ (account_costs' # account_costs /\ account_costs' # None) =>
            UNCHANGED <<filtered_df, selected_accounts, selected_countries,
                        total_orders, total_cost, total_net, difference,
                        account_summary, account_diff>>
        /\ (account_diff' # account_diff /\ account_diff' # None) =>
            UNCHANGED <<filtered_df, selected_accounts, selected_countries,
                        total_orders, total_cost, total_net, difference,
                        account_summary, account_costs>>
    ]_vars

\* both per-account frames of app.py computed over two or more records, the
\* filtered frame still holding the returned records
W16_ViewsArePure ==
    /\ pc = "view"
    /\ account_costs # None
    /\ account_diff # None
    /\ Len(account_diff.rows) >= 2
    /\ filtered_df.rows = result.rows

\* the keys of the rows of account_costs, and the aggregates of app1.py
\* that account_costs leaves out
TopKeys ==
    {<<account_costs.rows[g]["Account"], account_costs.rows[g]["Account Name"]>> :
        g \in 1..Len(account_costs.rows)}
LeftOut ==
    {g \in Aggregates :
        <<account_summary.rows[g]["ACCT"], account_summary.rows[g]["ACCT NM"]>> \notin TopKeys}

(***************************************************************************)
(* C17.  The top-10 frame holds min(10, number of account aggregates)      *)
(* entries, all of different accounts, each with the total cost of its     *)
(* aggregate, in non-increasing order of total cost, and no aggregate left *)
(* out has a total cost greater than an entry's.                           *)
(***************************************************************************)
C17_TopTen ==
    (pc = "view" /\ account_costs # None) =>
        /\ Len(account_costs.rows)
                = (IF Len(account_summary.rows) < 10 THEN Len(account_summary.rows) ELSE 10)
        /\ Cardinality(TopKeys) = Len(account_costs.rows)
        /\ \A a \in 1..Len(account_costs.rows) :
                \E g \in Aggregates :
                    /\ account_summary.rows[g]["ACCT"] = account_costs.rows[a]["Account"]
                    /\ account_summary.rows[g]["ACCT NM"] = account_costs.rows[a]["Account Name"]
                    /\ account_summary.rows[g]["Total cost_EUR"] = account_costs.rows[a]["Total Cost"]
        /\ \A a, b \in 1..Len(account_costs.rows) :
                a < b => Le(account_costs.rows[b]["Total Cost"], account_costs.rows[a]["Total Cost"])
        /\ \A g \in LeftOut, a \in 1..Len(account_costs.rows) :
                Le(account_summary.rows[g]["Total cost_EUR"], account_costs.rows[a]["Total Cost"])

\* eleven accounts, the two cheapest tied: ten entries, and the account left
\* out costs as much as the last entry
W17_TopTen ==
    /\ pc = "view"
    /\ account_costs # None
    /\ Len(account_summary.rows) = 11
    /\ Len(account_costs.rows) = 10
    /\ \E g \in LeftOut :
            account_summary.rows[g]["Total cost_EUR"] = account_costs.rows[10]["Total Cost"]

\* the first filtered row of the account of entry a of account_costs
FirstSeen(a) ==
    CHOOSE n \in Shown :
        /\ Key(filtered_df.rows[n])
                = <<account_costs.rows[a]["Account"], account_costs.rows[a]["Account Name"]>>
        /\ \A m \in 1..(n - 1) : Key(filtered_df.rows[m]) # Key(filtered_df.rows[n])

(***************************************************************************)
(* C18.  Two entries of the ranking with equal total cost stand in the     *)
(* order in which their accounts are first met in the filtered rows.       *)
(***************************************************************************)
X18_TiesFirstSeen ==
    (pc = "view" /\ account_costs # None) =>
        \A a, b \in 1..Len(account_costs.rows) :
            (a < b /\ account_costs.rows[a]["Total Cost"] = account_costs.rows[b]["Total Cost"])
                => FirstSeen(a) < FirstSeen(b)

(***************************************************************************)
(* C19.  After any sequence of uploads, failed ones included, what is      *)
(* active comes from the file uploaded last and from nothing else.  When   *)
(* a frame is returned its records are the billed rows of that file, one   *)
(* each and in sheet order, with that row's account, currency, status,     *)
(* country and order number and its cleaned total cost; the filtered       *)
(* records are among them, and shown unfiltered the key metrics and the    *)
(* account aggregates are those of exactly these records.  When that file  *)
(* fails, and while it is being read, no frame and no view is active.      *)
(***************************************************************************)
C19_FullReplace ==
    /\ Loaded =>
        /\ Len(result.rows) = Cardinality(BilledPositions)
        /\ \A n \in Records : result.rows[n][Index] \in BilledPositions
        /\ \A n, m \in Records : n < m => result.rows[n][Index] < result.rows[m][Index]
        /\ \A n \in Records :
            /\ \A c \in {"ACCT", "ACCT NM", "CURR", "STATUS", "PU CTRY", "ORD#"} :
                    result.rows[n][c] = file.rows[result.rows[n][Index]][c]
            /\ result.rows[n]["Total cost"]
                    = clean_numeric(file.rows[result.rows[n][Index]]["Total cost"]).v
        /\ pc = "view" =>
            /\ \A n \in Shown : \E m \in Records : filtered_df.rows[n] = result.rows[m]
            /\ selected_accounts = {} =>
                /\ total_orders = Cardinality(BilledPositions)
                /\ total_cost = Sum(Column(result.rows, "Total cost_EUR"))
                /\ account_summary.rows = AccountSummary(result.rows)
    /\ ~Loaded => (result = None /\ NoView)
    /\ pc = "failed" => (~file.readable \/ \E n \in 1..Len(file.rows) : file.rows[n]["Total cost"] = Obj)

\* the two-order sheet, then the file that cannot be read, then the
\* two-order sheet again, returned from the cache without running the
\* function: its two orders are shown
W19_FullReplace ==
    /\ uploads = 2
    /\ file = Sheet(<<OrderA1, OrderA2>>)
    /\ df = None
    /\ \E f \in DOMAIN cache : ~f.readable
    /\ pc = "view"
    /\ total_orders = 2

RECURSIVE Total(_)
\* the sum of a sequence of integers
Total(counts) ==
    IF counts = <<>> THEN 0
    ELSE Total(SubSeq(counts, 1, Len(counts) - 1)) + counts[Len(counts)]

(***************************************************************************)
(* C20.  The order count of every account aggregate is the number of       *)
(* filtered records of its (account id, account name), and the order       *)
(* counts of all aggregates add up to the order count of the filtered set. *)
(***************************************************************************)
X20_OrderCounts ==
    pc = "view" =>
        /\ \A g \in Aggregates : account_summary.rows[g]["ORD#"] = Cardinality(Partition(g))
        /\ Total(Column(account_summary.rows, "ORD#")) = total_orders

\* the monetary columns the sheet lacks
Missing == CostSet \ DOMAIN file.pad
\* what stops ingestion: the file cannot be read, the status or the date
\* column is not there, or float() rejects a monetary cell of a billed row
Stopped ==
    \/ ~file.readable
    \/ "STATUS" \notin DOMAIN file.pad
    \/ "ORD DT" \notin DOMAIN file.pad
    \/ \E n \in BilledPositions, col \in Present : clean_numeric(file.rows[n][col]).raised

(***************************************************************************)
(* C21.  A sheet that lacks a monetary column is ingested all the same:    *)
(* ingestion takes the error branch only for a cause other than the        *)
(* missing column, no error is reported otherwise, the cleaning loop       *)
(* leaves the missing column missing, and in the returned frame the _EUR   *)
(* field of every missing column is zero for every record.                 *)
(***************************************************************************)
C21_MissingColumnZero ==
    Missing # {} =>
        /\ pc \in {"except", "failed"} => Stopped
        /\ ~Stopped => errors = <<>>
        /\ (df # None /\ pc \notin {"read", "strip"}) => Missing \cap Columns(df) = {}
        /\ Loaded =>
            /\ result # None
            /\ \A n \in Records, col \in Missing : result.rows[n][EurOf(col)] = Int0

\* a sheet of two billed orders without its total-cost column has been
\* ingested: both records are there, their net amounts converted and their
\* total cost zero, and the totals are computed from them
W21_MissingColumnZero ==
    /\ pc = "view"
    /\ Missing = {"Total cost"}
    /\ errors = <<>>
    /\ Len(result.rows) = 2
    /\ \A n \in Records : result.rows[n]["Total cost_EUR"] = Int0
    /\ \E n \in Records : ~IsZero(result.rows[n]["NET_EUR"])
    /\ total_cost = Int0

\* the record passes the selection made on a column: nothing selected lets
\* every record pass
Passes(r, col, selected) == selected = {} \/ r[col] \in selected
\* the records of the returned frame that pass every selection
Admitted(accounts, statuses, countries) ==
    SelectSeq(result.rows, LAMBDA r : /\ Passes(r, "ACCT NM", accounts)
                                      /\ Passes(r, "STATUS", statuses)
                                      /\ Passes(r, "PU CTRY", countries))
\* the two filters of app1.py in the other order
CountryFirst ==
    LET byCountry == IF selected_countries # {}
                     THEN IsIn(result, "PU CTRY", selected_countries) ELSE result
    IN  IF selected_accounts # {}
        THEN IsIn(byCountry, "ACCT NM", selected_accounts) ELSE byCountry

(***************************************************************************)
(* C22.  The filtered frame holds exactly the records of the returned      *)
(* frame, in their order and with their columns, whose account name is     *)
(* among the selected accounts and whose pickup country is among the       *)
(* selected countries, an empty selection letting every record pass.  With *)
(* nothing selected it is the returned frame.  Filtering by country first  *)
(* and by account second gives the same frame, and the filters of app.py,  *)
(* with a status selection between the two, admit the records that pass    *)
(* all three.                                                              *)
(***************************************************************************)
C22_FilteredExactly ==
    filtered_df # None =>
        /\ filtered_df.cols = result.cols
        /\ filtered_df.rows = Admitted(selected_accounts, {}, selected_countries)
        /\ (selected_accounts = {} /\ selected_countries = {}) => filtered_df = result
        /\ filtered_df = CountryFirst
        /\ \A statuses \in SUBSET Unique(result, "STATUS") :
                Filtered_app(result, selected_accounts, statuses, selected_countries).rows
                    = Admitted(selected_accounts, statuses, selected_countries)

\* two records of one account picked up in two countries, the account and
\* one of the countries selected: one record is left
W22_FilteredExactly ==
    /\ pc = "view"
    /\ selected_accounts # {} /\ selected_countries # {}
    /\ Len(result.rows) = 2
    /\ Len(filtered_df.rows) = 1
    /\ \A n \in Records : result.rows[n]["ACCT NM"] \in selected_accounts
    /\ \E n \in Records : result.rows[n]["PU CTRY"] \notin selected_countries

\* the total cost of the filtered records, as the integer `whole` times a
\* negative power of ten
CostSum == Sum(Column(filtered_df.rows, "Total cost_EUR"))
Scale == IF CostSum.e >= 0 THEN 1 ELSE 10 ^ (0 - CostSum.e)
Whole == IF CostSum.e >= 0 THEN CostSum.m * (10 ^ CostSum.e) ELSE CostSum.m

(***************************************************************************)
(* C23.  Whenever the key metrics are computed the average cost is there:  *)
(* over no filtered record it is zero, and over one or more it is the      *)
(* number that, multiplied by the count of the filtered records, gives the *)
(* sum of their total cost in EUR.  It is never an infinity or nan.        *)
(***************************************************************************)
C23_AverageCost ==
    /\ (filtered_df = None) <=> (avg_cost = None)
    /\ filtered_df # None =>
        /\ total_orders = Cardinality(Shown)
        /\ total_cost = CostSum
        /\ total_orders = 0 => avg_cost = Int0
        /\ total_orders > 0 =>
            /\ avg_cost.k = "frac"
            /\ avg_cost.den > 0
            /\ avg_cost.num * total_orders * Scale = Whole * avg_cost.den

\* two filtered records whose total cost differs: the average is no whole
\* number and lies strictly between the two
W23_AverageCost ==
    /\ pc = "view"
    /\ total_orders = 2
    /\ avg_cost.den > 1
    /\ \E n, m \in Shown :
        /\ Lt(filtered_df.rows[n]["Total cost_EUR"], filtered_df.rows[m]["Total cost_EUR"])
        /\ ~IsZero(filtered_df.rows[n]["Total cost_EUR"])

\* the entries of the report and the aggregates the report names
Reported == 1..Len(negative_accounts.rows)
InTheRed == {g \in Aggregates : Lt(account_summary.rows[g]["Difference"], Int0)}
CostOnly ==
    {g \in Aggregates : /\ Lt(Int0, account_summary.rows[g]["Total cost_EUR"])
                        /\ account_summary.rows[g]["NET_EUR"] = Int0}

=============================================================================
